---- MODULE Spec2Model ----
(***************************************************************************)
(* A model of humumls' loader (humumls/tablecreator.py, class              *)
(* TableCreator): the three builders that read MRCONSO.RRF, the definition *)
(* and relation mergers, and the bulk insertion into the collections       *)
(* term, string and concept of a MongoDB database.                         *)
(*                                                                         *)
(* The RRF files are fixed for a behaviour (chosen in Init).  One action   *)
(* constructs a TableCreator over the database, one action is a whole call *)
(* of process().  The database outlives the TableCreator objects.          *)
(***************************************************************************)
EXTENDS Integers, Sequences, FiniteSets, TLC

VARIABLES
    conso,        \* MRCONSO.RRF: sequence of rows
    mrdef,        \* MRDEF.RRF:   sequence of rows
    mrrel,        \* MRREL.RRF:   sequence of rows
    obj,          \* TRUE when a TableCreator object exists
    languages,    \* self.languages
    isolanguages, \* self._isolanguages
    tokenizer,    \* self._tokenizer
    forbidden,    \* self.forbidden
    db,           \* the collections: [term, string, concept], sets of documents
    index,        \* TRUE when the unique index on string.string exists
    call,         \* the last call made: its arguments and how it ended
    runs          \* number of process() calls made so far

vars == <<conso, mrdef, mrrel, obj, languages, isolanguages, tokenizer,
          forbidden, db, index, call, runs>>

files == <<conso, mrdef, mrrel>>

----------------------------------------------------------------------------
(* Bounds of the model *)

MaxConso == 2     \* rows of MRCONSO.RRF
MaxRel == 2       \* rows of MRREL.RRF
MaxRuns == 2      \* calls of process()

----------------------------------------------------------------------------
(* Static tables *)

\* self.relationmapping
relationmapping ==
    [code \in {"PAR", "CHD", "RB", "RN", "SY", "RO", "RL", "RQ", "SIB",
               "AQ", "QB", "RU", "XR"} |->
        CASE code = "PAR" -> "parent"
          [] code = "CHD" -> "child"
          [] code = "RB"  -> "broader"
          [] code = "RN"  -> "narrower"
          [] code = "SY"  -> "synonym"
          [] code = "RO"  -> "other"
          [] code = "RL"  -> "similar"
          [] code = "RQ"  -> "related"
          [] code = "SIB" -> "sibling"
          [] code = "AQ"  -> "qualifier"
          [] code = "QB"  -> "qualifies"
          [] code = "RU"  -> "unspecified"
          [] code = "XR"  -> "notrelated"]

\* langdict of _transformlangs_to_iso
langdict ==
    [l \in {"ENG", "BAQ", "CHI", "CZE", "DAN", "DUT", "EST", "FIN", "FRE",
            "GER", "GRE", "HEB", "HUN", "ITA", "JPN", "KOR", "LAV", "NOR",
            "POL", "POR", "RUS", "SPA", "SWE", "TUR"} |->
        CASE l = "ENG" -> "en" [] l = "BAQ" -> "eu" [] l = "CHI" -> "zh"
          [] l = "CZE" -> "cz" [] l = "DAN" -> "dk" [] l = "DUT" -> "nl"
          [] l = "EST" -> "et" [] l = "FIN" -> "fi" [] l = "FRE" -> "fr"
          [] l = "GER" -> "de" [] l = "GRE" -> "gr" [] l = "HEB" -> "he"
          [] l = "HUN" -> "hu" [] l = "ITA" -> "it" [] l = "JPN" -> "jp"
          [] l = "KOR" -> "ko" [] l = "LAV" -> "lv" [] l = "NOR" -> "no"
          [] l = "POL" -> "pl" [] l = "POR" -> "po" [] l = "RUS" -> "ru"
          [] l = "SPA" -> "sp" [] l = "SWE" -> "sw" [] l = "TUR" -> "tr"]

\* The BSON length limit of _create_strings
MaxBytes == 1000

----------------------------------------------------------------------------
(* Values *)

\* A surface text is the string made of `ascii` one-byte characters "a"
\* followed by `wide` two-byte characters (U+00E9): two texts are the same
\* string exactly when the two counts agree.
Text(a, w) == [ascii |-> a, wide |-> w]

\* len(s)
StrLen(s) == s.ascii + s.wide

\* len(s.encode("utf-8"))
Utf8Len(s) == s.ascii + 2 * s.wide

\* " ".join(self.punct.sub(" ", string).lower().split()): the characters of a
\* Text are lower-case word characters, so only the representation is copied.
LowerWords(s) == s

\* len(string.split())
NumWords(s) == IF StrLen(s) = 0 THEN 0 ELSE 1

\* An exception: its type, the line of tablecreator.py that raises it, and
\* the row of the file being read there (0 outside the loops over a file)
NoError == [type |-> "none", line |-> 0, row |-> 0]
Raise(t, l, i) == [type |-> t, line |-> l, row |-> i]

Range(s) == {s[i] : i \in DOMAIN s}

\* list(aset): the elements of a set, each once, in an order the set fixes
RECURSIVE ToList(_)
ToList(S) ==
    IF S = {} THEN <<>>
    ELSE LET x == CHOOSE y \in S : TRUE IN <<x>> \o ToList(S \ {x})

\* Sequences over S of length at most n
SeqUpTo(S, n) == UNION {[1..k -> S] : k \in 0..n}

----------------------------------------------------------------------------
(* Rows of the RRF files.  A row is what record.strip().split("|") yields:  *)
(* `n` is the number of fields of the split, and field i can be read only   *)
(* when i < n (split[i] raises IndexError otherwise).                       *)

\* split[0], split[1], split[2], split[3], split[5], split[14] of MRCONSO
\* (a well-formed row has 18 fields and a trailing "|")
ConsoRow(c, l, t, u, s, str) ==
    [n |-> 19, cui |-> c, lat |-> l, ts |-> t, lui |-> u, sui |-> s,
     str |-> str]

\* split[0], split[3], split[4] of MRREL
RelRow(d, code, src) == [n |-> 17, dest |-> d, code |-> code, source |-> src]

\* split[0], split[5] of MRDEF; a definition text is an identifier and the
\* language langid.classify finds for it
DefText(id, lang) == [id |-> id, lang |-> lang]
DefRow(c, text) == [n |-> 9, cui |-> c, def |-> text]

\* langid.classify(definition)[0]
Classify(text) == text.lang

\* self._tokenizer(definition), for the tokenizers of the model: the identity
\* (the default) and a tokenizer that lower-cases the text
Tokenize(tok, text) ==
    IF tok = "lower"
    THEN (CASE text.id = "D1" -> "d1" [] text.id = "D2" -> "d2" [] OTHER -> text.id)
    ELSE text.id

----------------------------------------------------------------------------
(* _create_terms: the pass over MRCONSO *)

RECURSIVE TermLoop(_, _, _, _, _)
TermLoop(rows, i, store, langs, forb) ==
    IF i > Len(rows) THEN [err |-> NoError, store |-> store]
    ELSE LET split == rows[i] IN
      IF split.n <= 1 THEN [err |-> Raise("IndexError", 297, i), store |-> store]
      ELSE IF split.lat \notin langs THEN TermLoop(rows, i + 1, store, langs, forb)
      ELSE IF split.n <= 5 THEN [err |-> Raise("IndexError", 300, i), store |-> store]
      ELSE IF split.sui \in forb THEN TermLoop(rows, i + 1, store, langs, forb)
      ELSE
        LET pk == split.lui
            old == IF pk \in DOMAIN store THEN store[pk]
                   ELSE [_id |-> pk, concept |-> {}, string |-> {}]
            new == [old EXCEPT !.concept = @ \cup {split.cui},
                               !.string = @ \cup {split.sui}]
        IN TermLoop(rows, i + 1,
                    [k \in DOMAIN store \cup {pk} |->
                        IF k = pk THEN new ELSE store[k]],
                    langs, forb)

\* The documents _create_terms hands to insert_many (sets converted to lists)
TermDocs(store) ==
    {[_id |-> store[k]._id,
      concept |-> ToList(store[k].concept),
      string |-> ToList(store[k].string)] : k \in DOMAIN store}

----------------------------------------------------------------------------
(* _create_strings: the pass over MRCONSO *)

\* The BSON length check: TRUE when the row is thrown away
TooLong(str) == Utf8Len(str) >= MaxBytes

RECURSIVE StringLoop(_, _, _, _, _)
StringLoop(rows, i, store, langs, forb) ==
    IF i > Len(rows) THEN [err |-> NoError, store |-> store, forbidden |-> forb]
    ELSE LET split == rows[i] IN
      IF split.n <= 1
      THEN [err |-> Raise("IndexError", 225, i), store |-> store, forbidden |-> forb]
      ELSE IF split.lat \notin langs THEN StringLoop(rows, i + 1, store, langs, forb)
      ELSE IF split.n <= 5
      THEN [err |-> Raise("IndexError", 228, i), store |-> store, forbidden |-> forb]
      ELSE IF split.n <= 14
      THEN [err |-> Raise("IndexError", 229, i), store |-> store, forbidden |-> forb]
      ELSE IF TooLong(split.str)
      THEN StringLoop(rows, i + 1, store, langs, forb \cup {split.sui})
      ELSE
        LET pk == split.sui
            old == IF pk \in DOMAIN store THEN store[pk].concept ELSE {}
            new == [_id |-> pk,
                    string |-> split.str,
                    lower |-> LowerWords(split.str),
                    lang |-> split.lat,
                    numwords |-> NumWords(split.str),
                    numwordslower |-> NumWords(LowerWords(split.str)),
                    term |-> split.lui,
                    concept |-> old \cup {split.cui}]
        IN StringLoop(rows, i + 1,
                      [k \in DOMAIN store \cup {pk} |->
                          IF k = pk THEN new ELSE store[k]],
                      langs, forb)

\* The documents _create_strings hands to insert_many
StringDocs(store) ==
    {[store[k] EXCEPT !.concept = ToList(@)] : k \in DOMAIN store}

----------------------------------------------------------------------------
(* _create_concepts: the pass over MRCONSO, _mrdef, _mrrel *)

\* A record of the concept accumulator is a Python dict: `keys` is the set of
\* its keys, and a field holds a value only when its name is in `keys`.
\* The value of "rel" is a mapping and its kind: the plain dict of line 178
\* ("dict") or the defaultdict(set) of line 364 ("defaultdict").
EmptyMap == [r \in {} |-> {}]

EmptyDict ==
    [keys |-> {}, _id |-> "", preferred |-> "", term |-> {}, string |-> {},
     rel |-> [kind |-> "none", map |-> EmptyMap], definition |-> {}]

\* store[pk] of a defaultdict(dict)
Get(store, pk) == IF pk \in DOMAIN store THEN store[pk] ELSE EmptyDict

\* store[pk] = rec
Put(store, pk, rec) ==
    [k \in DOMAIN store \cup {pk} |-> IF k = pk THEN rec ELSE store[k]]

\* A variant of SetPreferred where the first flagged row wins
SetPreferredFirst(rec, split) ==
    IF split.ts = "P" /\ "preferred" \notin rec.keys
    THEN [rec EXCEPT !.keys = @ \cup {"preferred"}, !.preferred = split.lui]
    ELSE rec

\* Lines 159-160: the preferred term of a row flagged "P"
SetPreferred(rec, split) ==
    IF split.ts = "P"
    THEN [rec EXCEPT !.keys = @ \cup {"preferred"}, !.preferred = split.lui]
    ELSE rec

\* A variant of AddTermString that keeps the ids of the last row only
AddTermStringLast(rec, split) ==
    [rec EXCEPT !.keys = @ \cup {"term", "string"},
                !.term = {split.lui},
                !.string = {split.sui}]

\* Lines 162-170: the term and the string of a row, added to the two sets
AddTermString(rec, split) ==
    [rec EXCEPT !.keys = @ \cup {"term", "string"},
                !.term = @ \cup {split.lui},
                !.string = @ \cup {split.sui}]

RECURSIVE ConceptLoop(_, _, _, _, _)
ConceptLoop(rows, i, store, langs, forb) ==
    IF i > Len(rows) THEN [err |-> NoError, store |-> store]
    ELSE LET split == rows[i] IN
      IF split.n <= 1 THEN [err |-> Raise("IndexError", 150, i), store |-> store]
      ELSE IF split.lat \notin langs THEN ConceptLoop(rows, i + 1, store, langs, forb)
      ELSE IF split.n <= 5 THEN [err |-> Raise("IndexError", 153, i), store |-> store]
      ELSE IF split.sui \in forb THEN ConceptLoop(rows, i + 1, store, langs, forb)
      ELSE
        LET pk == split.cui
            r0 == [Get(store, pk) EXCEPT !.keys = @ \cup {"_id"}, !._id = pk]
            r1 == SetPreferred(r0, split)
            r2 == AddTermString(r1, split)
        IN ConceptLoop(rows, i + 1, Put(store, pk, r2), langs, forb)

\* Lines 175-178: sets to lists, and an empty plain dict under "rel"
ConvertConcepts(store) ==
    [k \in DOMAIN store |->
        [store[k] EXCEPT !.term = ToList(@), !.string = ToList(@),
                         !.keys = @ \cup {"rel"},
                         !.rel = [kind |-> "dict", map |-> EmptyMap]]]

\* A variant of AddDefinition that keeps the definition of the last row only
AddDefinitionLast(store, pk, definition) ==
    LET rec == Get(store, pk) IN
    Put(store, pk, [rec EXCEPT !.keys = @ \cup {"definition"},
                               !.definition = {definition}])

\* Lines 404-407 of _mrdef: add one definition to the record of pk
AddDefinition(store, pk, definition) ==
    LET rec == Get(store, pk) IN
    Put(store, pk,
        IF "definition" \in rec.keys
        THEN [rec EXCEPT !.definition = @ \cup {definition}]
        ELSE [rec EXCEPT !.keys = @ \cup {"definition"},
                         !.definition = {definition}])

RECURSIVE DefLoop(_, _, _, _, _)
DefLoop(rows, i, store, isolangs, tok) ==
    IF i > Len(rows) THEN [err |-> NoError, store |-> store]
    ELSE LET split == rows[i] IN
      IF split.n <= 5 THEN [err |-> Raise("IndexError", 392, i), store |-> store]
      ELSE IF Classify(split.def) \notin isolangs
      THEN DefLoop(rows, i + 1, store, isolangs, tok)
      ELSE DefLoop(rows, i + 1,
                   AddDefinition(store, split.cui, Tokenize(tok, split.def)),
                   isolangs, tok)

\* _mrdef: the loop over MRDEF, then the definitions as lists (lines 409-413)
MrDef(store, rows, isolangs, tok) ==
    LET r == DefLoop(rows, 1, store, isolangs, tok) IN
    IF r.err # NoError THEN r
    ELSE [err |-> NoError,
          store |-> [k \in DOMAIN r.store |->
                       IF "definition" \in r.store[k].keys
                       THEN [r.store[k] EXCEPT !.definition = ToList(@)]
                       ELSE r.store[k]]]

\* Lines 361-364 of _mrrel: store[source]["rel"][rel].add(dest), and what the
\* except clause does when one of the two lookups raises KeyError
AddRelation(store, source, rel, dest) ==
    LET rec == Get(store, source)
        fresh == [kind |-> "defaultdict", map |-> EmptyMap]
    IN Put(store, source,
        IF "rel" \notin rec.keys
        THEN [rec EXCEPT !.keys = @ \cup {"rel"}, !.rel = fresh]
        ELSE IF rec.rel.kind = "dict" /\ rel \notin DOMAIN rec.rel.map
        THEN [rec EXCEPT !.rel = fresh]
        ELSE [rec EXCEPT !.rel.map =
                [r \in DOMAIN rec.rel.map \cup {rel} |->
                    IF r = rel
                    THEN (IF rel \in DOMAIN rec.rel.map
                          THEN rec.rel.map[rel] ELSE {}) \cup {dest}
                    ELSE rec.rel.map[r]]])

\* Line 359: self.relationmapping[split[3]]
KnownCode(code) == code \in DOMAIN relationmapping

\* A variant of RelRowStep that skips a row whose code is unknown
RelRowStepSkip(store, split, i) ==
    IF split.n <= 4 THEN [err |-> Raise("IndexError", 355, i), store |-> store]
    ELSE IF ~KnownCode(split.code) THEN [err |-> NoError, store |-> store]
    ELSE [err |-> NoError,
          store |-> AddRelation(store, split.source,
                                relationmapping[split.code], split.dest)]

\* Lines 353-364: one row of MRREL, the i-th
RelRowStep(store, split, i) ==
    IF split.n <= 4 THEN [err |-> Raise("IndexError", 355, i), store |-> store]
    ELSE IF ~KnownCode(split.code)
    THEN [err |-> Raise("KeyError", 359, i), store |-> store]
    ELSE [err |-> NoError,
          store |-> AddRelation(store, split.source,
                                relationmapping[split.code], split.dest)]

RECURSIVE RelLoop(_, _, _)
RelLoop(rows, i, store) ==
    IF i > Len(rows) THEN [err |-> NoError, store |-> store]
    ELSE LET r == RelRowStep(store, rows[i], i) IN
         IF r.err # NoError THEN r ELSE RelLoop(rows, i + 1, r.store)

\* _mrrel: the loop over MRREL, then every bucket as a list (lines 366-368)
MrRel(store, rows) ==
    LET r == RelLoop(rows, 1, store) IN
    IF r.err # NoError THEN r
    ELSE IF \E k \in DOMAIN r.store : "rel" \notin r.store[k].keys
    THEN [err |-> Raise("KeyError", 367, 0), store |-> r.store]
    ELSE [err |-> NoError,
          store |-> [k \in DOMAIN r.store |->
                       [r.store[k] EXCEPT !.rel.map =
                           [n \in DOMAIN @ |-> ToList(@[n])]]]]

\* A variant of ConceptDocs that keeps the records without a string field
ConceptDocsAll(store) ==
    {[_id |-> store[k]._id,
      keys |-> store[k].keys,
      preferred |-> store[k].preferred,
      term |-> store[k].term,
      string |-> store[k].string,
      rel |-> store[k].rel.map,
      definition |-> IF "definition" \in store[k].keys
                     THEN store[k].definition ELSE <<>>]
        : k \in DOMAIN store}

\* Line 188, and the documents handed to insert_many.  A document keeps its
\* keys; "rel" is stored as the mapping alone, and a document without
\* definitions carries the empty list for comparison's sake only.
ConceptDocs(store) ==
    {[_id |-> store[k]._id,
      keys |-> store[k].keys,
      preferred |-> store[k].preferred,
      term |-> store[k].term,
      string |-> store[k].string,
      rel |-> store[k].rel.map,
      definition |-> IF "definition" \in store[k].keys
                     THEN store[k].definition ELSE <<>>]
        : k \in {j \in DOMAIN store : "string" \in store[j].keys}}

\* Lines 139-188: the accumulator of _create_concepts up to the bulk insert
BuildConcepts(rows, defs, rels, langs, isolangs, tok, forb, relations, definitions) ==
    LET c == ConceptLoop(rows, 1, EmptyMap, langs, forb) IN
    IF c.err # NoError THEN c
    ELSE
      LET s0 == ConvertConcepts(c.store)
          d == IF definitions THEN MrDef(s0, defs, isolangs, tok)
               ELSE [err |-> NoError, store |-> s0]
      IN IF d.err # NoError THEN d
         ELSE IF relations THEN MrRel(d.store, rels) ELSE d

----------------------------------------------------------------------------
(* The database *)

\* TRUE when inserting d into the collection C raises a duplicate key error:
\* _id is unique in every collection; `uniq` is TRUE for the string
\* collection once the unique index on its field "string" exists.
Conflict(d, C, uniq) ==
    \E e \in C : e._id = d._id \/ (uniq /\ e.string = d.string)

\* collection.insert_many(store.values()), called at `line`.  An empty list
\* of documents is refused; the documents are otherwise inserted one by one
\* in the iteration order of the dict, up to the first one that raises a
\* duplicate key error.  The outcomes are every set `ins` some order inserts.
InsertMany(coll, docs, uniq, line) ==
    IF docs = {} THEN {[err |-> Raise("TypeError", line, 0), coll |-> coll]}
    ELSE
      {[err |-> IF ins = docs THEN NoError ELSE Raise("BulkWriteError", line, 0),
        coll |-> coll \cup ins] :
          ins \in {I \in SUBSET docs :
                     /\ \A d \in I : ~Conflict(d, coll \cup (I \ {d}), uniq)
                     /\ \/ I = docs
                        \/ \E d \in docs \ I : Conflict(d, coll \cup I, uniq)}}

\* A variant of Skip that never skips
SkipNever(coll, overwrite) == FALSE

\* collection.count() > 0 and not overwrite (lines 135, 210, 282)
Skip(coll, overwrite) == coll # {} /\ ~overwrite

\* self.db.string.create_index('string', unique=True): refused when two
\* documents hold the same surface text
CanIndex(strings) ==
    \A d, e \in strings : d.string = e.string => d._id = e._id

----------------------------------------------------------------------------
(* The steps of process().  A step takes the state of the run so far: the   *)
(* collections, self.forbidden, the index, the exception raised (if any),   *)
(* and what the log tells: which builders ran, which inserted all their     *)
(* documents ("Inserting ... items"), which were skipped ("Skipped ...").   *)
(* It yields the set of states the step can end in.                         *)

CreateTerms(st, rows, langs, overwrite) ==
    IF Skip(st.term, overwrite) THEN {[st EXCEPT !.skipped = @ \cup {"term"}]}
    ELSE
      LET r == TermLoop(rows, 1, EmptyMap, langs, st.forbidden)
          s1 == [st EXCEPT !.ran = @ \cup {"term"}]
      IN IF r.err # NoError THEN {[s1 EXCEPT !.err = r.err]}
         ELSE {[s1 EXCEPT !.err = o.err, !.term = o.coll,
                          !.built = IF o.err = NoError THEN @ \cup {"term"} ELSE @]
                 : o \in InsertMany(st.term, TermDocs(r.store), FALSE, 330)}

CreateStrings(st, rows, langs, overwrite) ==
    IF Skip(st.string, overwrite) THEN {[st EXCEPT !.skipped = @ \cup {"string"}]}
    ELSE
      LET r == StringLoop(rows, 1, EmptyMap, langs, st.forbidden)
          s1 == [st EXCEPT !.ran = @ \cup {"string"}, !.forbidden = r.forbidden]
      IN IF r.err # NoError THEN {[s1 EXCEPT !.err = r.err]}
         ELSE {[s1 EXCEPT !.err = o.err, !.string = o.coll,
                          !.built = IF o.err = NoError THEN @ \cup {"string"} ELSE @]
                 : o \in InsertMany(st.string, StringDocs(r.store), st.index, 263)}

CreateConcepts(st, rows, defs, rels, langs, isolangs, tok, overwrite, relations, definitions) ==
    IF Skip(st.concept, overwrite) THEN {[st EXCEPT !.skipped = @ \cup {"concept"}]}
    ELSE
      LET r == BuildConcepts(rows, defs, rels, langs, isolangs, tok,
                             st.forbidden, relations, definitions)
          s1 == [st EXCEPT !.ran = @ \cup {"concept"}]
      IN IF r.err # NoError THEN {[s1 EXCEPT !.err = r.err]}
         ELSE {[s1 EXCEPT !.err = o.err, !.concept = o.coll,
                          !.built = IF o.err = NoError THEN @ \cup {"concept"} ELSE @]
                 : o \in InsertMany(st.concept, ConceptDocs(r.store), FALSE, 193)}

\* Line 119
CreateIndex(st) ==
    IF st.index THEN st
    ELSE IF CanIndex(st.string) THEN [st EXCEPT !.index = TRUE]
    ELSE [st EXCEPT !.err = Raise("DuplicateKeyError", 119, 0)]

\* process(): terms, strings, concepts, then the index; an exception ends it
ProcessOutcomes(st, rows, defs, rels, langs, isolangs, tok, overwrite, relations, definitions) ==
    LET S1 == CreateTerms(st, rows, langs, overwrite)
        S2 == UNION {IF s.err = NoError
                     THEN CreateStrings(s, rows, langs, overwrite) ELSE {s}
                       : s \in S1}
        S3 == UNION {IF s.err = NoError
                     THEN CreateConcepts(s, rows, defs, rels, langs, isolangs,
                                         tok, overwrite, relations, definitions)
                     ELSE {s} : s \in S2}
    IN {IF s.err = NoError THEN CreateIndex(s) ELSE s : s \in S3}

----------------------------------------------------------------------------
(* Actions *)

\* The last call and what it did; langs is the languages argument of a
\* construction, and the languages of the object in a call of process()
NoCall ==
    [op |-> "none", langs |-> {}, overwrite |-> FALSE, relations |-> FALSE,
     definitions |-> FALSE, err |-> NoError, ran |-> {}, built |-> {},
     skipped |-> {}]

\* A variant of Construct that accepts every language code and leaves the
\* unknown ones out of the ISO set
ConstructLenient(langs, tok) ==
    /\ runs < MaxRuns
    /\ obj' = TRUE
    /\ languages' = langs
    /\ isolanguages' = {langdict[l] : l \in langs \cap DOMAIN langdict}
    /\ tokenizer' = tok
    /\ forbidden' = {}
    /\ call' = [NoCall EXCEPT !.op = "construct", !.langs = langs]
    /\ UNCHANGED <<files, db, index, runs>>

\* TableCreator(languages, pathtometadir, tokenizer=tok).  An unknown language
\* code raises KeyError in _transformlangs_to_iso and no object is made.  (No
\* object is constructed once the runs of the model are used up.)
Construct(langs, tok) ==
    /\ runs < MaxRuns
    /\ IF langs \subseteq DOMAIN langdict
       THEN /\ obj' = TRUE
            /\ languages' = langs
            /\ isolanguages' = {langdict[l] : l \in langs}
            /\ tokenizer' = tok
            /\ forbidden' = {}
            /\ call' = [NoCall EXCEPT !.op = "construct", !.langs = langs]
       ELSE /\ UNCHANGED <<obj, languages, isolanguages, tokenizer, forbidden>>
            /\ call' = [NoCall EXCEPT !.op = "construct", !.langs = langs,
                                      !.err = Raise("KeyError", 100, 0)]
    /\ UNCHANGED <<files, db, index, runs>>

\* process(process_relations=relations, process_definitions=definitions,
\*         overwrite=overwrite)
Process(overwrite, relations, definitions) ==
    /\ obj
    /\ runs < MaxRuns
    /\ LET st == [err |-> NoError, term |-> db.term, string |-> db.string,
                  concept |-> db.concept, forbidden |-> forbidden,
                  index |-> index, ran |-> {}, built |-> {}, skipped |-> {}]
       IN \E s \in ProcessOutcomes(st, conso, mrdef, mrrel, languages,
                                   isolanguages, tokenizer, overwrite,
                                   relations, definitions) :
            /\ db' = [term |-> s.term, string |-> s.string, concept |-> s.concept]
            /\ forbidden' = s.forbidden
            /\ index' = s.index
            /\ call' = [op |-> "process", langs |-> languages,
                        overwrite |-> overwrite,
                        relations |-> relations, definitions |-> definitions,
                        err |-> s.err, ran |-> s.ran, built |-> s.built,
                        skipped |-> s.skipped]
    /\ runs' = runs + 1
    /\ UNCHANGED <<files, obj, languages, isolanguages, tokenizer>>

\* The state before any TableCreator exists: the files are on disk, the
\* database is empty.
InitFiles(consoFiles, defFiles, relFiles) ==
    /\ conso \in consoFiles
    /\ mrdef \in defFiles
    /\ mrrel \in relFiles
    /\ obj = FALSE
    /\ languages = {}
    /\ isolanguages = {}
    /\ tokenizer = "identity"
    /\ forbidden = {}
    /\ db = [term |-> {}, string |-> {}, concept |-> {}]
    /\ index = FALSE
    /\ call = NoCall
    /\ runs = 0

----------------------------------------------------------------------------
(* The inputs of the model *)

\* The strings of the Metathesaurus the MRCONSO rows are drawn from.  A
\* string identifier names one surface text in one language, and belongs to
\* one term: the same text in two languages has two identifiers.
Strings ==
    { [sui |-> "S1", lui |-> "L1", lat |-> "ENG", str |-> Text(1, 0)],
      [sui |-> "S2", lui |-> "L2", lat |-> "ENG", str |-> Text(2, 0)],
      [sui |-> "S3", lui |-> "L2", lat |-> "ENG", str |-> Text(MaxBytes + 1, 0)],
      [sui |-> "S4", lui |-> "L3", lat |-> "GER", str |-> Text(1, 0)],
      [sui |-> "S5", lui |-> "L3", lat |-> "ENG", str |-> Text(MaxBytes - 2, 1)] }

ConsoRows ==
    {ConsoRow(c, x.lat, t, x.lui, x.sui, x.str) :
        c \in {"C1", "C2"}, t \in {"P", "S"}, x \in Strings}

\* The language sets a caller constructs a TableCreator with
LanguageSets == {{}, {"ENG"}, {"GER"}, {"ENG", "GER"}, {"ENG", "XXX"}}

RelRows ==
    {RelRow(d, code, src) :
        d \in {"C1", "C2"}, code \in {"PAR", "CHD", "XX"}, src \in {"C1", "C3"}}

----------------------------------------------------------------------------
(* Specifications *)

ConstructPlain == \E langs \in LanguageSets : Construct(langs, "identity")

ProcessAny == \E ow, rel, def \in BOOLEAN : Process(ow, rel, def)

\* A first call of process(), against the empty database
ProcessFirst == runs = 0 /\ \E ow, rel, def \in BOOLEAN : Process(ow, rel, def)

\* One run over every MRCONSO file of at most MaxConso rows
InitConso == InitFiles(SeqUpTo(ConsoRows, MaxConso), {<<>>}, {<<>>})
NextConso == ConstructPlain \/ ProcessFirst
SpecConso == InitConso /\ [][NextConso]_vars

\* One run over every MRREL file of at most MaxRel rows, with the MRCONSO
\* and MRDEF files of a few shapes: a concept that is loaded, one that the
\* language filter removes, a definition of a concept that is not loaded
RelConso ==
    { <<ConsoRow("C1", "ENG", "P", "L1", "S1", Text(1, 0))>>,
      <<ConsoRow("C1", "ENG", "P", "L1", "S1", Text(1, 0)),
        ConsoRow("C2", "ENG", "S", "L2", "S2", Text(2, 0))>>,
      <<ConsoRow("C2", "GER", "S", "L3", "S4", Text(1, 0))>> }
RelDefs ==
    { <<>>,
      <<DefRow("C1", DefText("d1", "en"))>>,
      <<DefRow("C3", DefText("d1", "en"))>>,
      <<DefRow("C3", DefText("d2", "de"))>> }
ConstructRel == \E langs \in {{"ENG"}, {"GER"}} : Construct(langs, "identity")
InitRel == InitFiles(RelConso, RelDefs, SeqUpTo(RelRows, MaxRel))
NextRel == ConstructRel \/ ProcessFirst
SpecRel == InitRel /\ [][NextRel]_vars

----------------------------------------------------------------------------
(* Vocabulary of the properties *)

\* The state right after the first call of process(), made on an empty store
FirstRun == call.op = "process" /\ runs = 1

\* A row that the builders of this run keep: it passes the language filter
\* and its string was not thrown away
Survives(row) == row.lat \in languages /\ row.sui \notin forbidden

\* The concept ids of the accumulator after the pass over MRCONSO
Loaded == {conso[i].cui : i \in {j \in DOMAIN conso : Survives(conso[j])}}

\* The relation names
RelNames == {relationmapping[c] : c \in DOMAIN relationmapping}

\* The bucket rel[r] of a concept document, as a set
Bucket(d, r) == IF r \in DOMAIN d.rel THEN Range(d.rel[r]) ELSE {}

\* The Relation Merger was entered in the last call
MergerRan ==
    /\ call.op = "process"
    /\ call.relations
    /\ "concept" \in call.ran
    /\ call.err.line \notin {150, 153, 392}

----------------------------------------------------------------------------
(* Properties of the Relation Merger *)

\* C1: after _mrrel has run over rows whose codes are all in the relation
\* table, for every concept C persisted and every relation name r, C's
\* bucket rel[r] is exactly the set of destinations of the rows whose source
\* is C and whose code translates to r.
C1_BucketsAreTheRows ==
    (/\ FirstRun
     /\ call.relations
     /\ "concept" \in call.built
     /\ \A i \in DOMAIN mrrel : KnownCode(mrrel[i].code))
    => \A d \in db.concept : \A r \in RelNames :
          Bucket(d, r) =
            {mrrel[i].dest :
               i \in {j \in DOMAIN mrrel :
                        /\ mrrel[j].source = d._id
                        /\ relationmapping[mrrel[j].code] = r}}

\* C6: an MRDEF row that is accepted and whose concept id is not in the
\* accumulator never makes the concept build fail: when the codes of MRREL
\* are all known, _create_concepts raises no KeyError, whatever MRREL holds.
C6_PlaceholderTolerated ==
    (/\ FirstRun
     /\ call.definitions
     /\ "concept" \in call.ran
     /\ \E i \in DOMAIN mrdef :
          Classify(mrdef[i].def) \in isolanguages /\ mrdef[i].cui \notin Loaded
     /\ \A i \in DOMAIN mrrel : KnownCode(mrrel[i].code))
    => call.err.type # "KeyError"

\* C10: when the Relation Merger runs over a file with a row whose relation
\* code is not in the relation table, it raises at the first such row, the
\* call of process() ends with that error, and the run inserts no concept.
C10_UnknownCodeRaises ==
    (/\ FirstRun
     /\ MergerRan
     /\ \E i \in DOMAIN mrrel : ~KnownCode(mrrel[i].code))
    => /\ call.err =
            Raise("KeyError", 359,
                  CHOOSE i \in DOMAIN mrrel :
                     /\ ~KnownCode(mrrel[i].code)
                     /\ \A j \in 1..(i - 1) : KnownCode(mrrel[j].code))
       /\ "concept" \notin call.built
       /\ db.concept = {}

\* C10's case: the merger ran, rows with known codes came first, then a row
\* with an unknown code
C10_Witness ==
    /\ FirstRun
    /\ MergerRan
    /\ Len(mrrel) >= 2
    /\ KnownCode(mrrel[1].code)
    /\ ~KnownCode(mrrel[2].code)
    /\ call.err.row = 2

----------------------------------------------------------------------------
(* Properties of the builders that read MRCONSO *)

\* The ids of the documents of a collection
Ids(coll) == {d._id : d \in coll}

\* A list without a repeated element
NoDuplicates(list) == Cardinality(Range(list)) = Len(list)

\* No text of the file sits on the limit of the length check
NoBoundaryText == \A i \in DOMAIN conso : Utf8Len(conso[i].str) # MaxBytes

\* C2: in one run of process() against an empty store, every string id
\* listed in a persisted term or concept record is the _id of a persisted
\* string record (the builders skip the rows of the strings thrown away).
\* Stated for the files without a text of exactly 1000 bytes, and for the
\* runs that end without an error.
C2_NoDanglingStringIds ==
    (FirstRun /\ call.err = NoError /\ NoBoundaryText)
    => /\ \A d \in db.term : Range(d.string) \subseteq Ids(db.string)
       /\ \A d \in db.concept : Range(d.string) \subseteq Ids(db.string)

\* C3: when the String Builder has built the collection, a row that passes
\* the language filter with a text of exactly 1000 bytes has its string
\* record, with the text unmodified; a row with a text of 1001 bytes or more
\* has none and its string id is forbidden.
C3_BoundaryKept ==
    (FirstRun /\ "string" \in call.built)
    => \A i \in DOMAIN conso :
         conso[i].lat \in languages =>
           /\ Utf8Len(conso[i].str) = MaxBytes =>
                \E d \in db.string :
                   d._id = conso[i].sui /\ d.string = conso[i].str
           /\ Utf8Len(conso[i].str) >= MaxBytes + 1 =>
                /\ conso[i].sui \in forbidden
                /\ conso[i].sui \notin Ids(db.string)

\* C7: with an empty set of languages the filter accepts every row: each row
\* has its term record and its concept record, and its string record unless
\* its text is too long.
C7_EmptyMeansAll ==
    (FirstRun /\ languages = {})
    => \A i \in DOMAIN conso :
         ~TooLong(conso[i].str) =>
           /\ conso[i].lui \in Ids(db.term)
           /\ conso[i].sui \in Ids(db.string)
           /\ conso[i].cui \in Ids(db.concept)

\* The rows of concept c that pass the language filter
PassingRows(c) ==
    {i \in DOMAIN conso : conso[i].cui = c /\ conso[i].lat \in languages}

\* The rows of concept c that the Concept Builder keeps
SurvivingRows(c) == {i \in PassingRows(c) : conso[i].sui \notin forbidden}

\* C8 as stated: the term ids and string ids of a persisted concept are,
\* without duplicates, those of all the rows of the concept that pass the
\* language filter.  Stated for the files without a text of exactly 1000
\* bytes.
C8_UnionOfPassingRows ==
    (FirstRun /\ "concept" \in call.built /\ NoBoundaryText)
    => \A d \in db.concept :
         /\ Range(d.term) = {conso[i].lui : i \in PassingRows(d._id)}
         /\ Range(d.string) = {conso[i].sui : i \in PassingRows(d._id)}
         /\ NoDuplicates(d.term)
         /\ NoDuplicates(d.string)

\* C8, amended: the term ids and string ids of a persisted concept are,
\* without duplicates, those of the rows of the concept that pass the
\* language filter and whose string id is not in the forbidden set; every
\* concept with such a row is persisted.
C8_UnionOfSurvivingRows ==
    (FirstRun /\ "concept" \in call.built)
    => /\ \A d \in db.concept :
            /\ Range(d.term) = {conso[i].lui : i \in SurvivingRows(d._id)}
            /\ Range(d.string) = {conso[i].sui : i \in SurvivingRows(d._id)}
            /\ NoDuplicates(d.term)
            /\ NoDuplicates(d.string)
       /\ Ids(db.concept) = Loaded

\* C8's case: a persisted concept built from two rows with different terms
\* and different strings
C8_Witness ==
    /\ FirstRun
    /\ "concept" \in call.built
    /\ \E d \in db.concept : Len(d.term) = 2 /\ Len(d.string) = 2

\* The rows kept for concept c that are flagged as preferred
PreferredRows(c) == {i \in SurvivingRows(c) : conso[i].ts = "P"}

Last(S) == CHOOSE i \in S : \A j \in S : j <= i

\* C9: the preferred term of a persisted concept is the term id of the last
\* row, in file order, among the rows kept for the concept that are flagged
\* "P"; a concept without such a row has no preferred field.
C9_LastPreferredWins ==
    (FirstRun /\ "concept" \in call.built)
    => \A d \in db.concept :
         IF PreferredRows(d._id) = {}
         THEN "preferred" \notin d.keys
         ELSE /\ "preferred" \in d.keys
              /\ d.preferred = conso[Last(PreferredRows(d._id))].lui

\* C9's case: a persisted concept with two flagged rows naming two terms
C9_Witness ==
    /\ FirstRun
    /\ "concept" \in call.built
    /\ \E d \in db.concept :
         \E i, j \in PreferredRows(d._id) :
            i < j /\ conso[i].lui # conso[j].lui /\ d.preferred = conso[j].lui

----------------------------------------------------------------------------
(* Several runs over the same files *)

\* Calls of process() one after the other, by the same TableCreator or by a
\* new one (other languages, or a retry after an error), over every MRCONSO
\* file of at most MaxConso rows flagged as preferred
RunRows == {r \in ConsoRows : r.ts = "P"}
RunRels == { <<>>, <<RelRow("C2", "CHD", "C1"), RelRow("C1", "PAR", "C1")>> }
Init == InitFiles(SeqUpTo(RunRows, MaxConso), {<<>>}, RunRels)
Next == ConstructPlain \/ ProcessAny
Spec == Init /\ [][Next]_vars

\* A step that is a call of process()
ProcessStep == runs' = runs + 1

Collections == {"term", "string", "concept"}

\* The documents a builder derives from the files in a step that is a call
\* of process(): what it hands to insert_many
Derived(X) ==
    CASE X = "term" ->
           TermDocs(TermLoop(conso, 1, EmptyMap, languages, forbidden).store)
      [] X = "string" ->
           StringDocs(StringLoop(conso, 1, EmptyMap, languages, forbidden).store)
      [] X = "concept" ->
           ConceptDocs(BuildConcepts(conso, mrdef, mrrel, languages,
                                     isolanguages, tokenizer, forbidden',
                                     call'.relations, call'.definitions).store)

\* C4: a call of process() with overwrite=True clears and rebuilds every
\* collection that already holds documents: the call raises no duplicate key
\* error, and a collection whose builder ran holds exactly the documents
\* derived from the files.
C4_OverwriteRebuilds ==
    [][(ProcessStep /\ call'.overwrite)
       => \A X \in Collections :
             db[X] # {} =>
               /\ call'.err.type # "BulkWriteError"
               /\ (X \in call'.built => db'[X] = Derived(X))]_vars

\* C5 as stated: a call of process() with overwrite=False leaves every
\* collection that is not empty unchanged, and raises no error when the
\* three collections are populated.
C5_SkipChangesNothingNoError ==
    [][(ProcessStep /\ ~call'.overwrite)
       => /\ \A X \in Collections : db[X] # {} => db'[X] = db[X]
          /\ (\A X \in Collections : db[X] # {}) => call'.err = NoError]_vars

\* C5, amended: a call of process() with overwrite=False leaves every
\* collection that is not empty unchanged; when the three collections are
\* populated the three builders are skipped, and the call raises no error
\* unless the unique index on string.string does not exist yet and two string
\* documents hold the same surface text: create_index then raises.
C5_SkipChangesNothing ==
    [][(ProcessStep /\ ~call'.overwrite)
       => /\ \A X \in Collections : db[X] # {} => db'[X] = db[X]
          /\ (\A X \in Collections : db[X] # {}) =>
               /\ call'.skipped = Collections
               /\ call'.err = IF index \/ CanIndex(db.string) THEN NoError
                              ELSE Raise("DuplicateKeyError", 119, 0)]_vars

\* C5's case: a call with overwrite=False that found the three collections
\* populated and skipped them all
C5_Witness ==
    /\ call.op = "process"
    /\ ~call.overwrite
    /\ call.skipped = Collections
    /\ call.err = NoError
    /\ \A X \in Collections : db[X] # {}

----------------------------------------------------------------------------
(* One run over every MRDEF file of at most MaxDef rows *)

MaxDef == 2

\* The tokenizers handed to TableCreator: None and a lower-casing function
Tokenizers == {"identity", "lower"}

\* Definition texts: two English texts that differ in case only, a German
\* and a Spanish one (langid names languages by their ISO 639-1 codes)
DefTexts ==
    { DefText("d1", "en"), DefText("D1", "en"), DefText("d2", "de"),
      DefText("d3", "es") }
DefRows == {DefRow(c, t) : c \in {"C1", "C3"}, t \in DefTexts}

\* Concept C1 has an English and a Spanish string; C3 is in no MRCONSO row
DefConso ==
    { <<ConsoRow("C1", "ENG", "P", "L1", "S1", Text(1, 0)),
        ConsoRow("C1", "SPA", "S", "L4", "S6", Text(3, 0))>> }
DefRels == { <<>>, <<RelRow("C1", "PAR", "C3")>> }

ConstructDef ==
    \E langs \in {{"ENG"}, {"SPA"}, {"ENG", "GER"}}, tok \in Tokenizers :
        Construct(langs, tok)
InitDef == InitFiles(DefConso, SeqUpTo(DefRows, MaxDef), DefRels)
NextDef == ConstructDef \/ ProcessFirst
SpecDef == InitDef /\ [][NextDef]_vars

----------------------------------------------------------------------------
(* Properties of the Definition Merger *)

\* The ISO 639-1 code of each UMLS language of the Language Code Table
Iso6391 ==
    [ENG |-> "en", BAQ |-> "eu", CHI |-> "zh", CZE |-> "cs", DAN |-> "da",
     DUT |-> "nl", EST |-> "et", FIN |-> "fi", FRE |-> "fr", GER |-> "de",
     GRE |-> "el", HEB |-> "he", HUN |-> "hu", ITA |-> "it", JPN |-> "ja",
     KOR |-> "ko", LAV |-> "lv", NOR |-> "no", POL |-> "pl", POR |-> "pt",
     RUS |-> "ru", SPA |-> "es", SWE |-> "sv", TUR |-> "tr"]

\* The first call of process() ran the Definition Merger and inserted the
\* concept documents
DefsMerged == FirstRun /\ call.definitions /\ "concept" \in call.built

\* The rows of MRDEF for concept c whose detected language is in isos
RowsIn(c, isos) ==
    {i \in DOMAIN mrdef : mrdef[i].cui = c /\ Classify(mrdef[i].def) \in isos}

\* The definitions of the rows, after the text transform
Transformed(I) == {Tokenize(tokenizer, mrdef[i].def) : i \in I}

\* C11: the Definition Merger keeps the definition of an MRDEF row exactly
\* when the language detected for its text is the ISO 2-letter code of one
\* of the requested UMLS languages: every persisted concept holds the
\* definitions of its rows in the requested languages and no other (a
\* Spanish definition is kept when SPA is requested).
C11_KeptIffRequestedLanguage ==
    DefsMerged =>
        \A d \in db.concept :
            Range(d.definition) =
                Transformed(RowsIn(d._id, {Iso6391[l] : l \in languages}))

\* C12: the definition list of every persisted concept has no duplicate and
\* holds one entry per distinct transformed text of the accepted rows of the
\* concept (the rows whose detected language is in the target set); rows
\* whose texts are identical after the transform yield a single entry, and a
\* concept without accepted rows has no definition field.
C12_DefinitionsDeduplicated ==
    DefsMerged =>
        \A d \in db.concept :
            /\ NoDuplicates(d.definition)
            /\ Range(d.definition) = Transformed(RowsIn(d._id, isolanguages))
            /\ "definition" \in d.keys <=> RowsIn(d._id, isolanguages) # {}

\* C12's case: two accepted rows of a persisted concept whose texts differ
\* and are identical after the transform, stored as one entry
C12_Witness ==
    /\ DefsMerged
    /\ \E d \in db.concept :
         /\ Len(d.definition) = 1
         /\ \E i, j \in RowsIn(d._id, isolanguages) :
              /\ mrdef[i].def # mrdef[j].def
              /\ Tokenize(tokenizer, mrdef[i].def) = Tokenize(tokenizer, mrdef[j].def)

----------------------------------------------------------------------------
(* Properties of the construction *)

\* A step that constructs, or tries to construct, a TableCreator
ConstructStep == call'.op = "construct" /\ call' # call

\* C13: a language code that is not in the Language Code Table is rejected
\* when the TableCreator is constructed: the construction raises KeyError,
\* enters no builder, makes no object and leaves the three collections and
\* the index as they were; a construction with known codes raises nothing,
\* and process() only ever runs with languages of the table.
C13_RejectedAtConstruction ==
    [][/\ ConstructStep =>
            IF call'.langs \subseteq DOMAIN langdict
            THEN call'.err = NoError /\ languages' = call'.langs
            ELSE /\ call'.err = Raise("KeyError", 100, 0)
                 /\ call'.ran = {} /\ call'.built = {}
                 /\ UNCHANGED <<db, index, obj, languages, isolanguages,
                                forbidden>>
       /\ ProcessStep => obj /\ languages \subseteq DOMAIN langdict]_vars

\* C13's case: a construction with an unknown code was rejected while the
\* collections were populated
C13_Witness ==
    /\ call.op = "construct"
    /\ ~(call.langs \subseteq DOMAIN langdict)
    /\ call.err.type = "KeyError"
    /\ \A X \in Collections : db[X] # {}

----------------------------------------------------------------------------
(* One run over MRCONSO files with malformed rows *)

\* A line of MRCONSO that splits into n fields: the fields of a well-formed
\* row up to the n-th (the others cannot be read)
MalformedRow(n, c, l, t, u, s, str) == [ConsoRow(c, l, t, u, s, str) EXCEPT !.n = n]

\* Well-formed rows, rows cut after the third and after the eighth field,
\* and a row with a field too many
BadRows ==
    { ConsoRow("C1", "ENG", "P", "L1", "S1", Text(1, 0)),
      ConsoRow("C2", "GER", "P", "L3", "S4", Text(1, 0)) }
    \cup {MalformedRow(n, "C1", "ENG", "P", "L2", "S2", Text(2, 0)) : n \in {3, 8, 20}}
    \cup {MalformedRow(n, "C2", "GER", "P", "L3", "S4", Text(1, 0)) : n \in {3, 8}}

InitBad == InitFiles(SeqUpTo(BadRows, MaxConso), {<<>>}, {<<>>})
NextBad == ConstructPlain \/ ProcessFirst
SpecBad == InitBad /\ [][NextBad]_vars

\* The malformed rows of the file
Malformed == {i \in DOMAIN conso : conso[i].n # 19}

\* The least element of a non-empty set of numbers
Min(S) == CHOOSE x \in S : \A y \in S : x <= y

\* Some well-formed row of the file passes the language filter
SomeRowPasses == \E i \in DOMAIN conso : conso[i].n = 19 /\ conso[i].lat \in languages

\* C14: a malformed MRCONSO row is never silently skipped or accepted:
\* whatever its language field holds, a run over a file with a malformed row
\* fails with an error at the first such row, in the first builder that reads
\* it, so that no collection is built from the file.  (Stated for the files
\* with a well-formed row in a requested language.)
C14_MalformedRowFailsFast ==
    (FirstRun /\ Malformed # {} /\ SomeRowPasses) =>
        /\ call.err.type = "IndexError"
        /\ call.err.row = Min(Malformed)
        /\ call.built = {}

----------------------------------------------------------------------------
(* The query layer: table.py *)

\* A projection that names the fields to return and leaves _id out: the
\* fields of the document among those named
Project(doc, fields) == [f \in fields \cap DOMAIN doc |-> doc[f]]

\* Table.retrieve_one(query, filt) on a collection, the query being an
\* equality on one field: what find_one may return, each result a set with
\* the projected document, or the empty set for None.  ("If multiple items
\* satisfy the query, only the first one is returned.")
RetrieveOne(coll, field, value, fields) ==
    LET found == {d \in coll : field \in DOMAIN d /\ d[field] = value} IN
    IF found = {} THEN {{}}
    ELSE {{Project(d, fields)} : d \in found}

\* String.cui(surface): an empty document is as false as None
StringCui(coll, surface) ==
    {IF string # {} /\ (\E doc \in string : DOMAIN doc # {})
     THEN (CHOOSE doc \in string : TRUE).cui
     ELSE <<>> : string \in RetrieveOne(coll, "string", surface, {"cui"})}

\* C15: for a store populated by the loader and every surface text held by
\* a persisted string record, String.cui returns the concept ids the loader
\* associated with a record of that text; it returns the empty list only for
\* a text that no string record holds.
C15_LookupReturnsConcepts ==
    \A d \in db.string :
        StringCui(db.string, d.string)
            \subseteq {e.concept : e \in {x \in db.string : x.string = d.string}}

----------------------------------------------------------------------------
(* Properties of the concept documents *)

\* The concept ids of the MRDEF rows the Definition Merger accepts and of
\* the sources of the MRREL rows
Referenced ==
    {mrdef[i].cui : i \in {j \in DOMAIN mrdef : Classify(mrdef[j].def) \in isolanguages}}
    \cup {mrrel[i].source : i \in DOMAIN mrrel}

\* C16: every document of the concept collection has a string field with at
\* least one string id and is the record of a concept of MRCONSO: the
\* records made for an id that only a row of MRDEF or MRREL names are
\* discarded before the bulk insert, whatever the flags process_definitions
\* and process_relations are.
C16_NoPlaceholderPersisted ==
    \A d \in db.concept :
        /\ "string" \in d.keys
        /\ Len(d.string) >= 1
        /\ d._id \in {conso[i].cui : i \in DOMAIN conso}

\* C16's case: both mergers ran, a row of MRDEF and a row of MRREL named a
\* concept that no surviving row of MRCONSO holds, and the concept documents
\* were inserted without it
C16_Witness ==
    /\ FirstRun /\ call.definitions /\ call.relations
    /\ "concept" \in call.built
    /\ \E c \in Referenced \ Loaded :
         /\ \E i \in DOMAIN mrdef : mrdef[i].cui = c
         /\ \E i \in DOMAIN mrrel : mrrel[i].source = c
         /\ c \notin Ids(db.concept)

----------------------------------------------------------------------------
(* Runs that follow a failed run *)

\* Rows of two strings that are kept and of one that is too long, and an
\* MRREL file whose relation code is not in the table: with
\* process_relations=True the run fails in _mrrel, after the term and string
\* collections were inserted
RetryRows ==
    { ConsoRow("C1", "ENG", "P", "L1", "S1", Text(1, 0)),
      ConsoRow("C2", "ENG", "P", "L2", "S2", Text(2, 0)),
      ConsoRow("C1", "ENG", "P", "L2", "S3", Text(1001, 0)) }
RetryRels == { <<>>, <<RelRow("C1", "XX", "C1")>> }

ConstructRetry == Construct({"ENG"}, "identity")
InitRetry == InitFiles(SeqUpTo(RetryRows, MaxConso), {<<>>}, RetryRels)
NextRetry == ConstructRetry \/ ProcessAny
SpecRetry == InitRetry /\ [][NextRetry]_vars

\* The store after one run that built the string collection from the files
\* for the languages of the object and inserted no concept
StringsBuiltOnly ==
    /\ runs = 1
    /\ db.concept = {}
    /\ db.string # {}
    /\ db.string = StringDocs(StringLoop(conso, 1, EmptyMap, languages, {}).store)

\* C17: when a first run built the string collection and failed before it
\* inserted concepts, a second call of process() with overwrite=False on the
\* same files and languages that skips the string collection and builds the
\* concept collection persists only concepts whose string ids are all _ids
\* of string documents: the rows of the strings dropped as oversize stay out.
C17_RetryKeepsIntegrity ==
    [][(/\ StringsBuiltOnly
        /\ ProcessStep
        /\ ~call'.overwrite
        /\ "string" \in call'.skipped
        /\ "concept" \in call'.built)
       => \A d \in db'.concept : Range(d.string) \subseteq Ids(db'.string)]_vars

====
